---- MODULE Spec2Model ----
(***************************************************************************)
(* A model of autodiff/core.py: the Variable class of a scalar             *)
(* reverse-mode automatic differentiation engine.                          *)
(*                                                                         *)
(* Every Variable object the interpreter has allocated is an entry of the  *)
(* sequence `nodes`; a reference to a Variable is its index and 0 is       *)
(* Python's None.  The caller performs one API call at a time; backward()  *)
(* is modelled one iteration of its while loop per step.                   *)
(*                                                                         *)
(* Numbers.  A Python int or float is modelled by an exact rational        *)
(* [k |-> "q", n, d] in lowest terms.  Two further kinds stand for floats  *)
(* that are not rationals the model tracks: "nan" is float('nan') and      *)
(* "irr" is a finite float whose exact value is not tracked (a result of   *)
(* math.sin, math.cos or math.log away from their rational points, or of   *)
(* arithmetic on such a float).  An operation whose outcome depends on the *)
(* exact value of an "irr" operand (a division by it, a power of it) is    *)
(* outside the model.  "none" is Python's None, the grad of a Variable     *)
(* built with requires_grad false.                                         *)
(***************************************************************************)
EXTENDS Integers, Sequences, FiniteSets, TLC

(* ---------------------------- bounds ----------------------------------- *)

\* Spec: Variables the caller may hold (objects returned by an API call), and
\* backward() calls in one run.
MaxVars == 2
MaxPasses == 2
\* GraphSpec: the same two limits for a caller that combines Variables only.
MaxGraphVars == 4
MaxGraphPasses == 1
\* Largest numerator or denominator of a forward value.
MaxAbs == 8

(* ---------------------------- numbers ---------------------------------- *)

Abs(x) == IF x < 0 THEN -x ELSE x

RECURSIVE GCD(_, _)
GCD(a, b) == IF b = 0 THEN a ELSE GCD(b, a % b)

\* The rational n/d in lowest terms with a positive denominator.
Q(n, d) ==
    LET s == IF d < 0 THEN -1 ELSE 1
        g == GCD(Abs(n), Abs(d))
    IN  [k |-> "q", n |-> (s * n) \div g, d |-> (s * d) \div g]

Z(n) == [k |-> "q", n |-> n, d |-> 1]
NaN == [k |-> "nan", n |-> 0, d |-> 1]
Irr == [k |-> "irr", n |-> 0, d |-> 1]
None == [k |-> "none", n |-> 0, d |-> 1]

IsNum(a) == a.k = "q"
IsZero(a) == a.k = "q" /\ a.n = 0
IsPositive(a) == a.k = "q" /\ a.n > 0
IsInteger(a) == a.k = "q" /\ a.d = 1

\* a + b on floats: nan absorbs, then an untracked float absorbs.
FAdd(a, b) ==
    IF a.k = "nan" \/ b.k = "nan" THEN NaN
    ELSE IF a.k = "irr" \/ b.k = "irr" THEN Irr
    ELSE Q(a.n * b.d + b.n * a.d, a.d * b.d)

\* a * b on floats: nan absorbs; 0 times a finite float is 0.
FMul(a, b) ==
    IF a.k = "nan" \/ b.k = "nan" THEN NaN
    ELSE IF IsZero(a) \/ IsZero(b) THEN Z(0)
    ELSE IF a.k = "irr" \/ b.k = "irr" THEN Irr
    ELSE Q(a.n * b.n, a.d * b.d)

FNeg(a) == FMul(Z(-1), a)
FSub(a, b) == FAdd(a, FNeg(b))

\* a / b for rationals, b # 0.
QDiv(a, b) == Q(a.n * b.d, a.d * b.n)

RECURSIVE IPow(_, _)
IPow(x, e) == IF e = 0 THEN 1 ELSE x * IPow(x, e - 1)

\* a ** e for a rational a and an integer e; a # 0 when e < 0.
QPow(a, e) ==
    IF e >= 0 THEN Q(IPow(a.n, e), IPow(a.d, e))
    ELSE Q(IPow(a.d, -e), IPow(a.n, -e))

\* math.log(a) for a rational a > 0: 0 at 1, otherwise not a tracked rational.
Log(a) == IF a.n = a.d THEN Z(0) ELSE Irr

\* A value that is not an int or a float (a str, for instance).
NonNumeric == [k |-> "str", n |-> 0, d |-> 1]

\* A forward value the model tracks: an untracked float, or a rational whose
\* numerator and denominator stay within MaxAbs.
InRange(a) == a.k = "irr" \/ (a.k = "q" /\ Abs(a.n) <= MaxAbs /\ a.d <= MaxAbs)

(* ---------------------------- the object graph ------------------------- *)

VARIABLES
    nodes,    \* every Variable allocated and still referenced, in allocation order
    pc,       \* "idle" between API calls, "backward" inside backward()'s loop
    stack,    \* backward()'s local list `stack` (0 is None)
    root,     \* the Variable backward() was last called on (0: never called)
    fired,    \* per Variable: how often the last backward() invoked its _operation
    before,   \* per Variable: its grad when the last backward() was called
    passes,   \* backward() calls so far
    call,     \* the last API call
    raised    \* the exception the last API call raised, "none" when it returned

vars == <<nodes, pc, stack, root, fired, before, passes, call, raised>>

BinaryOps == {"add", "sub", "mul", "pow", "truediv"}
UnaryOps == {"sin", "cos"}

\* Values the caller constructs leaves from, and raw numbers given to operators.
LeafValues == {Z(0), Z(2)}
RawNumbers == {Z(0), Z(2)}

Nodes == 1 .. Len(nodes)
\* The Variables the caller holds: those an API call returned.
Held(ns) == {i \in 1 .. Len(ns) : ns[i].held}

\* VariableDescriptor._check_value: the exception it raises.
CheckValue(value) == IF value.k \in {"q", "irr", "nan"} THEN "none" ELSE "ValueError"

\* Variable.__init__ (the value already checked).  `held` is not an attribute of
\* the object: it records whether the caller received it.
Variable(value, operation, left_node, right_node, requires_grad, held) ==
    [value |-> value,
     requires_grad |-> requires_grad,
     grad |-> IF requires_grad THEN Z(0) ELSE None,
     operation |-> operation,
     left_node |-> left_node,
     right_node |-> right_node,
     held |-> held]

\* The result of a call that builds nodes: the exception raised ("none": it
\* returned; "unmodelled": its values leave the modelled numbers) and the graph.
Built(ns) == [exc |-> "none", nodes |-> ns]
Failed(exc, ns) == [exc |-> exc, nodes |-> ns]

\* Forward lambdas whose division by zero yields nan where Python raises.
ForwardBinaryNoRaise(op, a, b) ==
    CASE op = "add" -> [exc |-> "none", value |-> FAdd(a, b)]
      [] op = "sub" -> [exc |-> "none", value |-> FSub(a, b)]
      [] op = "mul" -> [exc |-> "none", value |-> FMul(a, b)]
      [] op = "truediv" ->
            IF ~IsNum(b) THEN [exc |-> "unmodelled", value |-> Irr]
            ELSE IF IsZero(b) THEN [exc |-> "none", value |-> NaN]
            ELSE IF ~IsNum(a) THEN [exc |-> "none", value |-> Irr]
            ELSE [exc |-> "none", value |-> QDiv(a, b)]
      [] op = "pow" ->
            IF ~IsNum(a) \/ ~IsInteger(b) \/ Abs(b.n) > MaxAbs
                THEN [exc |-> "unmodelled", value |-> Irr]
            ELSE IF IsZero(a) /\ b.n < 0
                THEN [exc |-> "none", value |-> NaN]
            ELSE [exc |-> "none", value |-> QPow(a, b.n)]

\* The forward lambdas of __add__ .. __truediv__: [exc, value].
ForwardBinary(op, a, b) ==
    CASE op = "add" -> [exc |-> "none", value |-> FAdd(a, b)]
      [] op = "sub" -> [exc |-> "none", value |-> FSub(a, b)]
      [] op = "mul" -> [exc |-> "none", value |-> FMul(a, b)]
      [] op = "truediv" ->
            IF ~IsNum(b) THEN [exc |-> "unmodelled", value |-> Irr]
            ELSE IF IsZero(b) THEN [exc |-> "ZeroDivisionError", value |-> NaN]
            ELSE IF ~IsNum(a) THEN [exc |-> "none", value |-> Irr]
            ELSE [exc |-> "none", value |-> QDiv(a, b)]
      [] op = "pow" ->
            IF ~IsNum(a) \/ ~IsInteger(b) \/ Abs(b.n) > MaxAbs
                THEN [exc |-> "unmodelled", value |-> Irr]
            ELSE IF IsZero(a) /\ b.n < 0
                THEN [exc |-> "ZeroDivisionError", value |-> NaN]
            ELSE [exc |-> "none", value |-> QPow(a, b.n)]

\* math.sin and math.cos.
ForwardUnary(op, a) ==
    CASE op = "sin" -> IF IsZero(a) THEN Z(0) ELSE Irr
      [] op = "cos" -> IF IsZero(a) THEN Z(1) ELSE Irr

\* Variable._binary_general_calc on the graph ns.  `second` is a node index, or,
\* with isRaw, a raw number, which line 98 wraps in Variable(second_node): a leaf
\* with the constructor's default requires_grad.  When the forward lambda raises,
\* no result is built and the wrapped number is unreferenced.
BinaryGeneralCalc(ns, self, second, isRaw, op, held) ==
    LET ns1 == IF isRaw THEN Append(ns, Variable(second, "None", 0, 0, TRUE, FALSE))
                        ELSE ns
        second_node == IF isRaw THEN Len(ns1) ELSE second
        requires_grad == ns1[self].requires_grad \/ ns1[second_node].requires_grad
        fw == ForwardBinary(op, ns1[self].value, ns1[second_node].value)
    IN  IF fw.exc # "none" THEN Failed(fw.exc, ns)
        ELSE Built(Append(ns1, Variable(fw.value,
                                        IF requires_grad THEN op ELSE "None",
                                        self, second_node, requires_grad, held)))

\* Variable._unary_general_calc.
UnaryGeneralCalc(ns, self, op) ==
    Built(Append(ns, Variable(ForwardUnary(op, ns[self].value),
                              IF ns[self].requires_grad THEN op ELSE "None",
                              self, 0, ns[self].requires_grad, TRUE)))

\* Variable.__neg__: self * -1.
Neg(ns, self, held) == BinaryGeneralCalc(ns, self, Z(-1), TRUE, "mul", held)

\* Variable.__rsub__: -self + other.
RSub(ns, self, other) ==
    LET m == Neg(ns, self, FALSE)
        r == BinaryGeneralCalc(m.nodes, Len(m.nodes), other, TRUE, "add", TRUE)
    IN  IF m.exc # "none" THEN Failed(m.exc, ns)
        ELSE IF r.exc # "none" THEN Failed(r.exc, ns)
        ELSE r

\* Variable.__rpow__: Variable(other, requires_grad=False) ** self.
RPow(ns, self, other) ==
    LET ns1 == Append(ns, Variable(other, "None", 0, 0, FALSE, FALSE))
        r == BinaryGeneralCalc(ns1, Len(ns1), self, FALSE, "pow", TRUE)
    IN  IF r.exc # "none" THEN Failed(r.exc, ns) ELSE r

\* Variable.__rtruediv__: self ** -1 * other.
RTrueDiv(ns, self, other) ==
    LET p == BinaryGeneralCalc(ns, self, Z(-1), TRUE, "pow", FALSE)
        r == BinaryGeneralCalc(p.nodes, Len(p.nodes), other, TRUE, "mul", TRUE)
    IN  IF p.exc # "none" THEN Failed(p.exc, ns)
        ELSE IF r.exc # "none" THEN Failed(r.exc, ns)
        ELSE r

(* ---------------------------- local derivative rules ------------------- *)

\* The two arguments the _<op>_backward method of node c passes to
\* _general_grad_calc, or the exception their evaluation raises.
LocalDerivatives(ns, c) ==
    LET op == ns[c].operation
        left_val == ns[ns[c].left_node].value
        right_val == ns[ns[c].right_node].value
        ok(l, r) == [exc |-> "none", left |-> l, right |-> r]
    IN  CASE op = "add" -> ok(Z(1), Z(1))
          [] op = "sub" -> ok(Z(1), Z(-1))
          [] op = "mul" -> ok(right_val, left_val)
          [] op = "pow" ->
                IF IsZero(left_val) /\ right_val.n - 1 < 0
                    THEN [exc |-> "ZeroDivisionError", left |-> NaN, right |-> NaN]
                ELSE ok(FMul(right_val, QPow(left_val, right_val.n - 1)),
                        IF IsPositive(left_val)
                            THEN FMul(QPow(left_val, right_val.n), Log(left_val))
                            ELSE NaN)
          [] op = "truediv" ->
                ok(QDiv(Z(1), right_val),
                   FMul(FNeg(left_val), QDiv(Z(1), FMul(right_val, right_val))))
          [] op = "sin" -> ok(IF IsZero(left_val) THEN Z(1) ELSE Irr, Z(0))
          [] op = "cos" -> ok(IF IsZero(left_val) THEN Z(0) ELSE Irr, Z(0))

\* A _general_grad_calc that assigns where the code accumulates.
GeneralGradCalcOverwrite(ns, self, left_derivative, right_derivative) ==
    LET l == ns[self].left_node
        r == ns[self].right_node
        ns1 == IF ns[l].requires_grad
                   THEN [ns EXCEPT ![l].grad = FMul(left_derivative, ns[self].grad)]
                   ELSE ns
    IN  IF r # 0 /\ ns1[r].requires_grad
            THEN [ns1 EXCEPT ![r].grad = FMul(right_derivative, ns1[self].grad)]
            ELSE ns1

\* Variable._general_grad_calc of node self.
GeneralGradCalc(ns, self, left_derivative, right_derivative) ==
    LET l == ns[self].left_node
        r == ns[self].right_node
        ns1 == IF ns[l].requires_grad
                   THEN [ns EXCEPT ![l].grad = FAdd(@, FMul(left_derivative, ns[self].grad))]
                   ELSE ns
    IN  IF r # 0 /\ ns1[r].requires_grad
            THEN [ns1 EXCEPT ![r].grad = FAdd(@, FMul(right_derivative, ns1[self].grad))]
            ELSE ns1

(* ---------------------------- backward and zero_grad ------------------- *)

\* backward(), line 164: self.grad = 1.
Seed(ns, self) == [ns EXCEPT ![self].grad = Z(1)]

\* A pop that reads the last element and leaves it on the list.
PoppedNothing(stk) == stk

\* stack.pop(): the element popped and the list left.
Top(stk) == stk[Len(stk)]
Popped(stk) == SubSeq(stk, 1, Len(stk) - 1)

\* Line 170: whether the popped element has its _operation invoked.
Fires(ns, curr) ==
    curr # 0 /\ ns[curr].requires_grad /\ ns[curr].operation # "None"

\* Lines 171-172: both operands are pushed, the right one (or None) last.
Pushed(stk, ns, curr) == Append(Append(stk, ns[curr].left_node), ns[curr].right_node)

\* A zero_grad that also resets the operands of the node.
ZeroGradWithOperands(ns, self) ==
    [i \in 1 .. Len(ns) |->
        IF i \in {self, ns[self].left_node, ns[self].right_node} /\ ns[i].requires_grad
            THEN [ns[i] EXCEPT !.grad = Z(0)]
            ELSE ns[i]]

\* Variable.zero_grad.
ZeroGradOf(ns, self) ==
    IF ~ns[self].requires_grad THEN ns ELSE [ns EXCEPT ![self].grad = Z(0)]

Grads(ns) == [i \in 1 .. Len(ns) |-> ns[i].grad]

NotFired(ns) == [i \in 1 .. Len(ns) |-> 0]

\* backward()'s loop run to its end from the graph ns and the list stk: the
\* exception raised, if any, and the graph it leaves.
RECURSIVE RunBackward(_, _)
RunBackward(ns, stk) ==
    IF stk = <<>> THEN Built(ns)
    ELSE LET curr == Top(stk)
             d == LocalDerivatives(ns, curr)
         IN  IF ~Fires(ns, curr) THEN RunBackward(ns, Popped(stk))
             ELSE IF d.exc # "none" THEN Failed(d.exc, ns)
             ELSE RunBackward(GeneralGradCalc(ns, curr, d.left, d.right),
                              Pushed(Popped(stk), ns, curr))

\* self.backward() as one function of the graph.
BackwardOf(ns, self) == RunBackward(Seed(ns, self), <<self>>)

(* ---------------------------- actions ---------------------------------- *)

Init ==
    /\ nodes = <<>>
    /\ pc = "idle"
    /\ stack = <<>>
    /\ root = 0
    /\ fired = <<>>
    /\ before = <<>>
    /\ passes = 0
    /\ call = "none"
    /\ raised = "none"

\* A call that builds nodes, with outcome res: it returns the new Variable, or
\* raises and leaves the graph as it was.  The caller builds at most maxVars
\* Variables, with forward values within the modelled numbers.
Construct(name, res, maxVars) ==
    /\ pc = "idle"
    /\ Cardinality(Held(nodes)) < maxVars
    /\ res.exc # "unmodelled"
    /\ \A i \in 1 .. Len(res.nodes) : InRange(res.nodes[i].value)
    /\ nodes' = res.nodes
    /\ fired' = NotFired(res.nodes)
    /\ call' = name
    /\ raised' = res.exc
    /\ root' = 0
    /\ before' = <<>>
    /\ UNCHANGED <<pc, stack, passes>>

\* Variable(value, requires_grad=rg).
NewVariable(maxVars) ==
    \E value \in LeafValues \cup {NonNumeric}, rg \in BOOLEAN :
        Construct("Variable",
                  IF CheckValue(value) # "none" THEN Failed(CheckValue(value), nodes)
                  ELSE Built(Append(nodes, Variable(value, "None", 0, 0, rg, TRUE))),
                  maxVars)

\* self <op> other with other a Variable.
BinaryVar(maxVars) ==
    \E op \in BinaryOps, self \in Held(nodes), other \in Held(nodes) :
        Construct("operator", BinaryGeneralCalc(nodes, self, other, FALSE, op, TRUE), maxVars)

\* self <op> other with other a raw number.
BinaryRaw(maxVars) ==
    \E op \in BinaryOps, self \in Held(nodes), other \in RawNumbers :
        Construct("operator", BinaryGeneralCalc(nodes, self, other, TRUE, op, TRUE), maxVars)

\* other <op> self with other a raw number: __radd__ and __rmul__ delegate to
\* self + other and self * other.
Reflected(maxVars) ==
    \E self \in Held(nodes), other \in RawNumbers :
        \/ Construct("operator",
                     BinaryGeneralCalc(nodes, self, other, TRUE, "add", TRUE), maxVars)
        \/ Construct("operator",
                     BinaryGeneralCalc(nodes, self, other, TRUE, "mul", TRUE), maxVars)
        \/ Construct("operator", RSub(nodes, self, other), maxVars)
        \/ Construct("operator", RPow(nodes, self, other), maxVars)
        \/ Construct("operator", RTrueDiv(nodes, self, other), maxVars)

\* -self, self.sin(), self.cos().
Unary(maxVars) ==
    \E self \in Held(nodes) :
        \/ Construct("operator", Neg(nodes, self, TRUE), maxVars)
        \/ \E op \in UnaryOps :
               Construct("operator", UnaryGeneralCalc(nodes, self, op), maxVars)

\* self.backward(), up to the first test of `while stack`.
BackwardCall(maxPasses) ==
    \E self \in Held(nodes) :
        /\ pc = "idle"
        /\ passes < maxPasses
        /\ nodes' = Seed(nodes, self)
        /\ stack' = <<self>>
        /\ pc' = "backward"
        /\ root' = self
        /\ fired' = NotFired(nodes)
        /\ before' = Grads(nodes)
        /\ passes' = passes + 1
        /\ call' = "backward"
        /\ raised' = "none"

\* One iteration of backward()'s loop, and the return when the stack is empty.
BackwardStep ==
    /\ pc = "backward"
    /\ LET curr == Top(stack)
           d == LocalDerivatives(nodes, curr)
       IN  IF Fires(nodes, curr)
               THEN /\ fired' = [fired EXCEPT ![curr] = @ + 1]
                    /\ IF d.exc # "none"
                           THEN /\ raised' = d.exc
                                /\ pc' = "idle"
                                /\ stack' = <<>>
                                /\ nodes' = nodes
                           ELSE /\ nodes' = GeneralGradCalc(nodes, curr, d.left, d.right)
                                /\ stack' = Pushed(Popped(stack), nodes, curr)
                                /\ UNCHANGED <<pc, raised>>
               ELSE /\ stack' = Popped(stack)
                    /\ pc' = IF Popped(stack) = <<>> THEN "idle" ELSE "backward"
                    /\ UNCHANGED <<nodes, fired, raised>>
    /\ UNCHANGED <<root, before, passes, call>>

\* self.zero_grad().
ZeroGradOn(self) ==
        /\ pc = "idle"
        /\ nodes' = ZeroGradOf(nodes, self)
        /\ call' = "zero_grad"
        /\ raised' = "none"
        /\ root' = 0
        /\ fired' = NotFired(nodes)
        /\ before' = <<>>
        /\ UNCHANGED <<pc, stack, passes>>

ZeroGrad == \E self \in Held(nodes) : ZeroGradOn(self)

\* A caller using the whole API.
Next ==
    \/ NewVariable(MaxVars)
    \/ BinaryVar(MaxVars)
    \/ BinaryRaw(MaxVars)
    \/ Reflected(MaxVars)
    \/ Unary(MaxVars)
    \/ BackwardCall(MaxPasses)
    \/ BackwardStep
    \/ ZeroGrad

Spec == Init /\ [][Next]_vars

\* A caller that builds expressions over Variables only (no raw numbers) and
\* differentiates them: larger graphs than Spec reaches.
GraphNext ==
    \/ NewVariable(MaxGraphVars)
    \/ BinaryVar(MaxGraphVars)
    \/ \E self \in Held(nodes), op \in UnaryOps :
          Construct("operator", UnaryGeneralCalc(nodes, self, op), MaxGraphVars)
    \/ BackwardCall(MaxGraphPasses)
    \/ BackwardStep

GraphSpec == Init /\ [][GraphNext]_vars

(* ---------------------------- graph vocabulary ------------------------- *)

IsLeaf(ns, n) == ns[n].left_node = 0

\* The nodes reachable from r through operand references, r included.
RECURSIVE Reach(_, _)
Reach(ns, r) ==
    IF r = 0 THEN {}
    ELSE {r} \cup Reach(ns, ns[r].left_node) \cup Reach(ns, ns[r].right_node)

\* The result nodes reachable from r that hold n as an operand.
Parents(ns, r, n) ==
    {p \in Reach(ns, r) : ns[p].left_node = n \/ ns[p].right_node = n}

\* How many operand slots of nodes reachable from r hold n.
RefCount(ns, r, n) ==
    Cardinality({p \in Reach(ns, r) : ns[p].left_node = n})
    + Cardinality({p \in Reach(ns, r) : ns[p].right_node = n})

\* No result node reachable from r is held by more than one operand slot.
OnlyLeavesShared(ns, r) ==
    \A n \in Reach(ns, r) : ~IsLeaf(ns, n) => RefCount(ns, r, n) <= 1

\* The sum, over the paths from n down to x, of acc times the product of the
\* local derivatives along the path.
RECURSIVE PathSum(_, _, _, _)
PathSum(ns, n, x, acc) ==
    IF n = 0 THEN Z(0)
    ELSE IF n = x THEN acc
    ELSE IF ~Fires(ns, n) THEN Z(0)
    ELSE LET d == LocalDerivatives(ns, n)
         IN  FAdd(PathSum(ns, ns[n].left_node, x, FMul(d.left, acc)),
                  PathSum(ns, ns[n].right_node, x, FMul(d.right, acc)))

\* The last API call was backward() and it has returned normally.
Done == pc = "idle" /\ call = "backward" /\ raised = "none"

\* The last backward() began with every grad as its constructor left it.
Fresh ==
    /\ Len(before) = Len(nodes)
    /\ \A i \in Nodes : before[i] = IF nodes[i].requires_grad THEN Z(0) ELSE None

\* A leaf wrapping a raw number: built by an operator, never given to the caller.
IsPromoted(ns, n) == IsLeaf(ns, n) /\ ~ns[n].held

(* ---------------------------- claims ----------------------------------- *)

\* C1: during one backward(), the _operation of every reachable differentiable
\* result node is invoked exactly once: never twice while the pass runs, and once
\* by the time it returns.
C1_EachOperationInvokedOnce ==
    /\ \A n \in Nodes : fired[n] <= 1
    /\ Done => \A n \in Reach(nodes, root) : Fires(nodes, n) => fired[n] = 1

\* C2: a node's _operation is invoked only after every reachable result node
\* holding it as an operand has been invoked, so that on a fresh graph its grad
\* is already the whole sum over the paths from the root.
C2_ParentsFireFirst ==
    [][\A n \in Nodes :
          (pc = "backward" /\ fired'[n] = fired[n] + 1) =>
              /\ \A p \in Parents(nodes, root, n) : Fires(nodes, p) => fired[p] >= 1
              /\ (Fresh /\ n # root) => nodes[n].grad = PathSum(nodes, root, n, Z(1))
      ]_vars

\* C3: on a fresh graph, after backward() every differentiable leaf holds the sum
\* over the root-to-leaf paths of the products of the local derivatives; for
\* z = x + x, w = z * z that is x.grad = 8 * x.value.
C3_SharedNodeGradient ==
    (Done /\ Fresh /\ ~IsLeaf(nodes, root)) =>
        /\ \A x \in Reach(nodes, root) :
              (IsLeaf(nodes, x) /\ nodes[x].requires_grad) =>
                  nodes[x].grad = PathSum(nodes, root, x, Z(1))
        /\ \A x \in Nodes :
              LET z == nodes[root].left_node
              IN  (/\ nodes[root].operation = "mul"
                   /\ nodes[root].right_node = z
                   /\ nodes[z].operation = "add"
                   /\ nodes[z].left_node = x /\ nodes[z].right_node = x
                   /\ IsLeaf(nodes, x))
                  => nodes[x].grad = FMul(Z(8), nodes[x].value)

\* C4: a node built with requires_grad false has no grad (None) in every state.
C4_NonDifferentiableGradAbsent ==
    \A n \in Nodes : ~nodes[n].requires_grad => nodes[n].grad = None

\* C5: a raw number given to a binary operator becomes a leaf with requires_grad
\* false and no grad; a result has an operation exactly when one of its operands
\* requires grad, so a requires_grad-false node combined with a raw number gives
\* a result with requires_grad false, no grad and no operation.
C5_RawNumberNotDifferentiable ==
    /\ \A n \in Nodes :
          IsPromoted(nodes, n) => ~nodes[n].requires_grad /\ nodes[n].grad = None
    /\ \A n \in Nodes :
          (~IsLeaf(nodes, n) /\ nodes[n].right_node # 0) =>
              LET l == nodes[n].left_node
                  r == nodes[n].right_node
              IN  /\ nodes[n].requires_grad
                        = (nodes[l].requires_grad \/ nodes[r].requires_grad)
                  /\ (nodes[n].operation # "None") = nodes[n].requires_grad
                  /\ (~nodes[l].requires_grad /\ IsPromoted(nodes, r)) =>
                        /\ ~nodes[n].requires_grad
                        /\ nodes[n].operation = "None"
                        /\ (call # "backward" => nodes[n].grad = None)

\* The graph with every grad as the constructors left it.
FreshGraph(ns) ==
    [i \in 1 .. Len(ns) |->
        [ns[i] EXCEPT !.grad = IF ns[i].requires_grad THEN Z(0) ELSE None]]

\* What the reachable result nodes holding n as an operand pass down to n, given
\* the grads they hold in ns.
RECURSIVE SumOver(_, _, _, _)
SumOver(ns, ps, n, side) ==
    IF ps = {} THEN Z(0)
    ELSE LET p == CHOOSE q \in ps : TRUE
             d == LocalDerivatives(ns, p)
             part == IF side = "left" THEN d.left ELSE d.right
         IN  FAdd(FMul(part, ns[p].grad), SumOver(ns, ps \ {p}, n, side))

Incoming(ns, r, n) ==
    FAdd(SumOver(ns, {p \in Reach(ns, r) : Fires(ns, p) /\ ns[p].left_node = n},
                 n, "left"),
         SumOver(ns, {p \in Reach(ns, r) : Fires(ns, p) /\ ns[p].right_node = n},
                 n, "right"))

\* x = Variable(2); y = Variable(3); f = x * y + x ** 2 - 1 / y, in allocation
\* order: x, y, x * y, 2, x ** 2, the sum, -1, y ** -1, 1, (y ** -1) * 1, f.
Example1 ==
    LET leaves == <<Variable(Z(2), "None", 0, 0, TRUE, TRUE),
                    Variable(Z(3), "None", 0, 0, TRUE, TRUE)>>
        xy == BinaryGeneralCalc(leaves, 1, 2, FALSE, "mul", FALSE).nodes
        x2 == BinaryGeneralCalc(xy, 1, Z(2), TRUE, "pow", FALSE).nodes
        sum == BinaryGeneralCalc(x2, 3, 5, FALSE, "add", FALSE).nodes
        inv == RTrueDiv(sum, 2, Z(1)).nodes
    IN  BinaryGeneralCalc(inv, 6, 10, FALSE, "sub", TRUE).nodes

\* The grads f.backward() leaves in Example1.
Example1Grads == Grads(BackwardOf(Example1, Len(Example1)).nodes)

\* Example1 is a graph of the claim: eleven nodes, no result node shared.
Example1OnlyLeavesShared == Len(Example1) = 11 /\ OnlyLeavesShared(Example1, 11)

\* C6: on a fresh graph in which only leaves are shared, backward() on a result
\* leaves every differentiable leaf with the sum of the contributions of all the
\* paths reaching it (added, never overwritten), and every requires_grad-false
\* leaf without a grad; in Example1 that is x.grad = 7 (y + 2x) and
\* y.grad = 2 + 1/9 (x + 1/y^2).
C6_AdditiveAccumulation ==
    /\ (Done /\ Fresh /\ ~IsLeaf(nodes, root) /\ OnlyLeavesShared(nodes, root)) =>
          \A x \in Reach(nodes, root) :
              IsLeaf(nodes, x) =>
                  nodes[x].grad = IF nodes[x].requires_grad
                                      THEN PathSum(nodes, root, x, Z(1))
                                      ELSE None
    /\ Example1OnlyLeavesShared
    /\ Example1Grads[1] = Z(7) /\ Example1Grads[2] = Q(19, 9)

\* A backward() on f = x + x has returned, and x holds 1 + 1.
C6_Witness ==
    /\ Done /\ Fresh /\ ~IsLeaf(nodes, root)
    /\ nodes[root].operation = "add"
    /\ nodes[root].left_node = nodes[root].right_node
    /\ IsLeaf(nodes, nodes[root].left_node)
    /\ nodes[nodes[root].left_node].grad = Z(2)

\* C7: zero_grad() on a node sets its grad to 0 when it requires grad and changes
\* nothing otherwise; every other node, and every other attribute of the node,
\* is left as it was; a second call changes nothing more.
C7_ZeroGradFrame ==
    [][\A self \in Nodes :
          ZeroGradOn(self) =>
              /\ Len(nodes') = Len(nodes)
              /\ \A n \in Nodes : n # self => nodes'[n] = nodes[n]
              /\ nodes'[self] = [nodes[self] EXCEPT !.grad =
                                    IF nodes[self].requires_grad THEN Z(0) ELSE @]
              /\ ZeroGradOf(nodes', self) = nodes'
      ]_vars

\* zero_grad() was called on f = x + x after f.backward(): f.grad went from 1 to
\* 0 and x.grad is still 2.
C7_Witness ==
    /\ call = "zero_grad" /\ passes = 1
    /\ \E f \in Nodes :
          /\ nodes[f].operation = "add"
          /\ nodes[f].left_node = nodes[f].right_node
          /\ nodes[f].grad = Z(0)
          /\ nodes[nodes[f].left_node].grad = Z(2)

\* C8: a constructing call that raises leaves the graph as it was; dividing a
\* node by a zero-valued operand, a node or a raw number, raises
\* ZeroDivisionError; a non-numeric leaf value raises ValueError.
C8_FailedConstructionChangesNothing ==
    [][/\ (call' \in {"Variable", "operator"} /\ raised' # "none") => nodes' = nodes
       /\ CheckValue(NonNumeric) = "ValueError"
       /\ \A self \in Held(nodes) :
             /\ BinaryGeneralCalc(nodes, self, Z(0), TRUE, "truediv", TRUE)
                    = Failed("ZeroDivisionError", nodes)
             /\ \A other \in Held(nodes) :
                   IsZero(nodes[other].value) =>
                       BinaryGeneralCalc(nodes, self, other, FALSE, "truediv", TRUE)
                           = Failed("ZeroDivisionError", nodes)
      ]_vars

\* An operator raised ZeroDivisionError in a graph that holds a gradient.
C8_Witness ==
    /\ call = "operator" /\ raised = "ZeroDivisionError"
    /\ \E n \in Nodes : nodes[n].grad = Z(1)

\* C9: backward() sets the root's grad to exactly 1 and only adds to the grad the
\* other nodes held before the call; and when every differentiable node
\* reachable from the root holds grad 0 when backward() is called (zero_grad()
\* was called on each), every reachable node ends with the grad that backward()
\* gives on the freshly built graph.
C9_GradientsPersistUntilReset ==
    /\ call = "backward" => nodes[root].grad = Z(1)
    /\ (Done /\ OnlyLeavesShared(nodes, root)) =>
          \A n \in Reach(nodes, root) \ {root} :
              nodes[n].requires_grad =>
                  nodes[n].grad = FAdd(before[n], Incoming(nodes, root, n))
    /\ (Done /\ \A n \in Reach(nodes, root) :
                    nodes[n].requires_grad => before[n] = Z(0)) =>
          \A n \in Reach(nodes, root) :
              nodes[n].grad = BackwardOf(FreshGraph(nodes), root).nodes[n].grad

\* The same with the last part read for the differentiable nodes only.
C9_ForDifferentiableNodes ==
    /\ call = "backward" => nodes[root].grad = Z(1)
    /\ (Done /\ OnlyLeavesShared(nodes, root)) =>
          \A n \in Reach(nodes, root) \ {root} :
              nodes[n].requires_grad =>
                  nodes[n].grad = FAdd(before[n], Incoming(nodes, root, n))
    /\ (Done /\ \A n \in Reach(nodes, root) :
                    nodes[n].requires_grad => before[n] = Z(0)) =>
          \A n \in Reach(nodes, root) :
              (nodes[n].requires_grad \/ n = root) =>
                  nodes[n].grad = BackwardOf(FreshGraph(nodes), root).nodes[n].grad

\* The iterations backward()'s loop still owes for node n on its stack: one to
\* pop it and, when it fires, those of the two operands it pushes.  Defined
\* because operands precede their results.
RECURSIVE Weight(_, _)
Weight(ns, n) ==
    IF ~Fires(ns, n) THEN 1
    ELSE 1 + Weight(ns, ns[n].left_node) + Weight(ns, ns[n].right_node)

RECURSIVE PendingFrom(_, _, _)
PendingFrom(ns, stk, i) ==
    IF i = 0 THEN 0 ELSE Weight(ns, stk[i]) + PendingFrom(ns, stk, i - 1)

Pending(ns, stk) == PendingFrom(ns, stk, Len(stk))

====
